---- MODULE Spec2Model ----
(***************************************************************************)
(* pyprobeplus-ble: the ProbePlusBLE session object.                       *)
(*                                                                         *)
(* Three parts of src/src/pyprobeplus_ble/pyprobeplus_ble.py are modelled: *)
(*   - the connection lifecycle (_retry_ble_connection, _ensure_connected, *)
(*     _execute_disconnect, _disconnect, _disconnected) run by asyncio     *)
(*     tasks that interleave at their await points only;                   *)
(*   - the observer registry (register_callback, _fire_callbacks);         *)
(*   - the notification decoder (_notification_handler).                   *)
(*                                                                         *)
(* Real numbers are carried as exact integers: the probe battery proxy     *)
(* d = byte[3] * 0.03125 in units of 1e-5, the temperature in units of     *)
(* 1e-6 degrees, the relay voltage in millivolts.                          *)
(***************************************************************************)
EXTENDS Integers, Sequences, FiniteSets, TLC

(***************************************************************************)
(* Bounds of the model.                                                    *)
(***************************************************************************)
\* concurrent asyncio tasks that call into the session
NumTasks == 2
\* transport failures, link losses and cancellations injected under Spec
\* and SpecCancel
MaxFaults == 1
\* register_callback calls under SpecRegistry
MaxRegs == 2

(***************************************************************************)
(* Program constants.                                                      *)
(***************************************************************************)
\* @retry_bluetooth_connection_error(10)
Attempts == 10

Tasks == 1..NumTasks
None == 0
Handles == 1..(NumTasks + 2)
ErrorKinds == {"dbus", "bleak"}

VARIABLES
    \* ---- ProbePlusBLE fields
    client,          \* self._client: None or the handle of a BleakClient
    expected,        \* self._expected_disconnect
    connect_lock,    \* self._connect_lock: None when unlocked, else the holder
    waiters,         \* self._connect_lock._waiters, in arrival order
    \* ---- the transport
    live,            \* handles h with h.is_connected
    subscribed,      \* handles with a notification subscription
    dlog,            \* what _disconnected logged last: none, debug, warning
    \* ---- each task's position and locals
    op,              \* the task's current or last call: none, connect
                     \* (_retry_ble_connection), disconnect
    pc,              \* the await the task is suspended at; idle between calls
    attempt,         \* loop index of the retry wrapper
    exc,             \* exception being handled in _retry_ble_connection
    lclient,         \* local `client` of _ensure_connected / _execute_disconnect
    result,          \* how the task's last call ended: none, ok, error,
                     \* cancelled
    \* ---- bookkeeping about the run
    tconnects,       \* establish_connection calls made by the task's last
                     \* connect call
    tdisc,           \* client.disconnect() calls made by the task's call
    dbusFails,       \* BleakDBusError failures seen by the task's call
    cycles,          \* cooldown + forced disconnect cycles completed by it
    faultsLeft,      \* transport failures and cancellations the environment
                     \* may still inject
    batchOnly,       \* every call so far is a connect call started while the
                     \* session had no handle and no call had returned
    older,           \* tasks with a disconnect not yet begun (scheduled,
                     \* waiting for the lock, or in the cooldown before it)
                     \* that was initiated before the latest
                     \* establish_connection returned
    \* ---- observers and decoded state
    callbacks,       \* self._callbacks: entries [fn, reg]; reg numbers the
                     \* register_callback call that appended the entry
    regFn,           \* regFn[r]: the callback closed over by the r-th
                     \* unregister_callback returned so far
    probe_state,     \* self._probe_state
    relay_state,     \* self._relay_state
    \* ---- bookkeeping about the last calls
    lastUnreg,       \* the last unregister_callback call, if it was the
                     \* last operation on the registry
    lastData,        \* bytes of the last notification
    handlerError,    \* the last _notification_handler call raised
    fan              \* the last fan-out of _fire_callbacks

sessionVars == <<client, expected, connect_lock, waiters>>
transportVars == <<live, subscribed, dlog>>
taskVars == <<op, pc, attempt, exc, lclient, result>>
bookVars == <<tconnects, tdisc, dbusFails, cycles, faultsLeft, batchOnly>>
lifeVars == <<sessionVars, transportVars, taskVars, bookVars, older>>

notifyVars == <<callbacks, regFn, probe_state, relay_state, lastUnreg,
                lastData, handlerError, fan>>

vars == <<lifeVars, notifyVars>>

\* positions of a task whose _execute_disconnect has been initiated but
\* has not taken the lock yet
PendingDisc == {"xd_start", "xd_lock", "cooldown"}

IsConnected(h) == h # None /\ h \in live

Referenced == {client} \cup live \cup {lclient[t] : t \in Tasks}
FreshHandle == CHOOSE h \in Handles : h \notin Referenced

InitLife(budget) ==
    /\ client = None
    /\ expected = TRUE
    /\ connect_lock = None
    /\ waiters = <<>>
    /\ live = {}
    /\ subscribed = {}
    /\ dlog = "none"
    /\ op = [t \in Tasks |-> "none"]
    /\ pc = [t \in Tasks |-> "idle"]
    /\ attempt = [t \in Tasks |-> 0]
    /\ exc = [t \in Tasks |-> "none"]
    /\ lclient = [t \in Tasks |-> None]
    /\ result = [t \in Tasks |-> "none"]
    /\ tconnects = [t \in Tasks |-> 0]
    /\ tdisc = [t \in Tasks |-> 0]
    /\ dbusFails = [t \in Tasks |-> 0]
    /\ cycles = [t \in Tasks |-> 0]
    /\ faultsLeft = budget
    /\ batchOnly = TRUE
    /\ older = {}

\* Callback functions an application may register.
Fns == {"f", "g"}

IndexError == -1
NoData == <<IndexError>>
NoUnreg == [cap |-> 0, raised |-> FALSE, before |-> <<>>]
NoFan == [start |-> <<>>, end |-> <<>>, log |-> <<>>, raised |-> FALSE]
NoScript == [fn \in Fns |-> 0]

\* ProbeState() and RelayState(): the dataclass defaults.
ProbeState == [battery_level |-> 0, temperature |-> 0, rssi |-> 0]
RelayState == [battery_level |-> 0, volage |-> 0, status |-> 0]

InitNotify ==
    /\ callbacks = <<>>
    /\ regFn = <<>>
    /\ probe_state = ProbeState
    /\ relay_state = RelayState
    /\ lastUnreg = NoUnreg
    /\ lastData = NoData
    /\ handlerError = FALSE
    /\ fan = NoFan

Init == InitLife(MaxFaults) /\ InitNotify

(***************************************************************************)
(* Control transfers shared by the coroutines.                             *)
(***************************************************************************)
Ctl(t, p, o, r) ==
    /\ pc' = [pc EXCEPT ![t] = p]
    /\ op' = [op EXCEPT ![t] = o]
    /\ result' = [result EXCEPT ![t] = r]

\* _disconnected: the transport's disconnected callback; it only logs.
Disconnected == IF expected THEN "debug" ELSE "warning"

\* RaiseToWrapper with the last attempt tested one too late.
RaiseToWrapperOffByOne(t) ==
    IF attempt[t] = Attempts
    THEN Ctl(t, "idle", "connect", "error")
    ELSE Ctl(t, "backoff", "connect", "none")

\* The wrapper made by retry_bluetooth_connection_error(10) sees the
\* exception re-raised by _retry_ble_connection: it re-raises on the last
\* attempt and otherwise sleeps before calling again.
RaiseToWrapper(t) ==
    IF attempt[t] = Attempts - 1
    THEN Ctl(t, "idle", "connect", "error")
    ELSE Ctl(t, "backoff", "connect", "none")

\* _execute_disconnect has returned to its caller; e is the exception its
\* caller is handling ("none" when it runs as the task of _disconnect).
XdReturn(t, e) ==
    /\ exc' = [exc EXCEPT ![t] = "none"]
    /\ IF op[t] = "disconnect"
       THEN /\ Ctl(t, "idle", "disconnect", "ok")
            /\ UNCHANGED cycles
       ELSE /\ RaiseToWrapper(t)
            /\ cycles' = [cycles EXCEPT ![t] = IF e = "dbus" THEN @ + 1 ELSE @]

\* XdBody without `self._client = None`.
XdBodyKeepsClient(t, e) ==
    /\ expected' = TRUE
    /\ client' = client
    /\ IF IsConnected(client)
       THEN /\ lclient' = [lclient EXCEPT ![t] = client]
            /\ connect_lock' = t
            /\ Ctl(t, "stop_notify", op[t], "none")
            /\ exc' = [exc EXCEPT ![t] = e]
            /\ UNCHANGED cycles
       ELSE /\ lclient' = [lclient EXCEPT ![t] = None]
            /\ connect_lock' = None
            /\ XdReturn(t, e)

\* _execute_disconnect, from taking the lock to its first await (or to its
\* return when there is nothing to disconnect).
XdBody(t, e) ==
    /\ expected' = TRUE
    /\ client' = None
    /\ IF IsConnected(client)
       THEN /\ lclient' = [lclient EXCEPT ![t] = client]
            /\ connect_lock' = t
            /\ Ctl(t, "stop_notify", op[t], "none")
            /\ exc' = [exc EXCEPT ![t] = e]
            /\ UNCHANGED cycles
       ELSE /\ lclient' = [lclient EXCEPT ![t] = None]
            /\ connect_lock' = None
            /\ XdReturn(t, e)

\* ExecuteDisconnectCall entering the body without the lock.
ExecuteDisconnectCallNoLock(t, lk, e) ==
    /\ UNCHANGED waiters
    /\ XdBody(t, e)

\* A call of _execute_disconnect when the lock is in state lk: asyncio.Lock
\* is taken without suspending only if it is free and nobody waits for it.
ExecuteDisconnectCall(t, lk, e) ==
    IF lk = None /\ waiters = <<>>
    THEN /\ UNCHANGED waiters
         /\ XdBody(t, e)
    ELSE /\ waiters' = Append(waiters, t)
         /\ connect_lock' = lk
         /\ Ctl(t, "xd_lock", op[t], "none")
         /\ exc' = [exc EXCEPT ![t] = e]
         /\ lclient' = [lclient EXCEPT ![t] = None]
         /\ UNCHANGED <<expected, client, cycles>>

\* EnsureConnectedCall without the `is_connected` early returns.
EnsureConnectedCallNoCheck(t, n) ==
    IF connect_lock = None /\ waiters = <<>>
    THEN /\ connect_lock' = t
         /\ Ctl(t, "establish", "connect", "none")
         /\ tconnects' = [tconnects EXCEPT ![t] = n + 1]
         /\ UNCHANGED waiters
    ELSE /\ waiters' = Append(waiters, t)
         /\ Ctl(t, "ec_lock", "connect", "none")
         /\ tconnects' = [tconnects EXCEPT ![t] = n]
         /\ UNCHANGED connect_lock

\* A call of _ensure_connected, up to its first await or its early return;
\* n is the number of establish_connection calls the task's call has made.
EnsureConnectedCall(t, n) ==
    IF IsConnected(client)
    THEN /\ Ctl(t, "idle", "connect", "ok")
         /\ tconnects' = [tconnects EXCEPT ![t] = n]
         /\ UNCHANGED <<connect_lock, waiters>>
    ELSE IF connect_lock = None /\ waiters = <<>>
    THEN /\ connect_lock' = t
         /\ Ctl(t, "establish", "connect", "none")
         /\ tconnects' = [tconnects EXCEPT ![t] = n + 1]
         /\ UNCHANGED waiters
    ELSE /\ waiters' = Append(waiters, t)
         /\ Ctl(t, "ec_lock", "connect", "none")
         /\ tconnects' = [tconnects EXCEPT ![t] = n]
         /\ UNCHANGED connect_lock

\* The except clauses of _retry_ble_connection, entered with the lock
\* already released by the failed _ensure_connected.
HandleError(t, kind) ==
    IF kind = "dbus"
    THEN /\ Ctl(t, "cooldown", "connect", "none")
         /\ exc' = [exc EXCEPT ![t] = "dbus"]
         /\ dbusFails' = [dbusFails EXCEPT ![t] = @ + 1]
         /\ connect_lock' = None
         /\ lclient' = [lclient EXCEPT ![t] = None]
         /\ UNCHANGED <<waiters, expected, client, cycles>>
    ELSE /\ ExecuteDisconnectCall(t, None, "bleak")
         /\ UNCHANGED dbusFails

(***************************************************************************)
(* The connect path.                                                       *)
(***************************************************************************)
\* A caller awaits _retry_ble_connection().
RetryBleConnection(t) ==
    /\ pc[t] = "idle"
    /\ EnsureConnectedCall(t, 0)
    /\ attempt' = [attempt EXCEPT ![t] = 0]
    /\ tdisc' = [tdisc EXCEPT ![t] = 0]
    /\ dbusFails' = [dbusFails EXCEPT ![t] = 0]
    /\ cycles' = [cycles EXCEPT ![t] = 0]
    /\ batchOnly' = (batchOnly /\ client = None
                        /\ \A u \in Tasks : result[u] = "none")
    /\ UNCHANGED <<client, expected, transportVars, exc, lclient, faultsLeft>>
    /\ UNCHANGED older
    /\ UNCHANGED notifyVars

\* A waiter of _ensure_connected gets the lock and checks again.
EnsureConnectedLocked(t) ==
    /\ pc[t] = "ec_lock"
    /\ connect_lock = None
    /\ waiters # <<>> /\ Head(waiters) = t
    /\ waiters' = Tail(waiters)
    /\ IF IsConnected(client)
       THEN /\ connect_lock' = None
            /\ Ctl(t, "idle", "connect", "ok")
            /\ UNCHANGED tconnects
       ELSE /\ connect_lock' = t
            /\ Ctl(t, "establish", "connect", "none")
            /\ tconnects' = [tconnects EXCEPT ![t] = @ + 1]
    /\ UNCHANGED <<client, expected, transportVars, attempt, exc, lclient,
                   tdisc, dbusFails, cycles, faultsLeft, batchOnly>>
    /\ UNCHANGED older
    /\ UNCHANGED notifyVars

\* establish_connection returns a connected client.
EstablishConnectionOk(t) ==
    /\ pc[t] = "establish"
    /\ LET h == FreshHandle IN
        /\ live' = live \cup {h}
        /\ client' = h
        /\ lclient' = [lclient EXCEPT ![t] = h]
    /\ pc' = [pc EXCEPT ![t] = "start_notify"]
    /\ UNCHANGED <<expected, connect_lock, waiters, subscribed, dlog, op,
                   attempt, exc, result, bookVars>>
    /\ older' = {u \in Tasks \ {t} : pc[u] \in PendingDisc}
    /\ UNCHANGED notifyVars

\* establish_connection raises.
EstablishConnectionFails(t, kind) ==
    /\ pc[t] = "establish"
    /\ faultsLeft > 0
    /\ faultsLeft' = faultsLeft - 1
    /\ HandleError(t, kind)
    /\ UNCHANGED <<transportVars, attempt, tconnects, tdisc, batchOnly>>
    /\ UNCHANGED older
    /\ UNCHANGED notifyVars

\* start_notify returns: _ensure_connected and the wrapper return.
StartNotifyOk(t) ==
    /\ pc[t] = "start_notify"
    /\ lclient[t] \in live
    /\ subscribed' = subscribed \cup {lclient[t]}
    /\ connect_lock' = None
    /\ lclient' = [lclient EXCEPT ![t] = None]
    /\ Ctl(t, "idle", "connect", "ok")
    /\ UNCHANGED <<client, expected, waiters, live, dlog, attempt, exc,
                   bookVars>>
    /\ UNCHANGED older
    /\ UNCHANGED notifyVars

\* start_notify raises (always so when the link is already gone).
StartNotifyFails(t, kind) ==
    /\ pc[t] = "start_notify"
    /\ lclient[t] \notin live \/ faultsLeft > 0
    /\ faultsLeft' = IF lclient[t] \in live THEN faultsLeft - 1 ELSE faultsLeft
    /\ HandleError(t, kind)
    /\ UNCHANGED <<transportVars, attempt, tconnects, tdisc, batchOnly>>
    /\ UNCHANGED older
    /\ UNCHANGED notifyVars

\* CooldownDone re-raising without the forced _execute_disconnect.
CooldownDoneNoDisconnect(t) ==
    /\ pc[t] = "cooldown"
    /\ RaiseToWrapper(t)
    /\ exc' = [exc EXCEPT ![t] = "none"]
    /\ UNCHANGED <<sessionVars, transportVars, attempt, lclient, bookVars>>
    /\ older' = IF pc'[t] \in PendingDisc THEN older ELSE older \ {t}
    /\ UNCHANGED notifyVars

\* asyncio.sleep(60) is over: force the disconnect.
CooldownDone(t) ==
    /\ pc[t] = "cooldown"
    /\ ExecuteDisconnectCall(t, connect_lock, "dbus")
    /\ UNCHANGED <<transportVars, attempt, tconnects, tdisc, dbusFails,
                   faultsLeft, batchOnly>>
    /\ older' = IF pc'[t] \in PendingDisc THEN older ELSE older \ {t}
    /\ UNCHANGED notifyVars

\* The wrapper's sleep between attempts is over: next attempt.
BackoffDone(t) ==
    /\ pc[t] = "backoff"
    /\ attempt' = [attempt EXCEPT ![t] = @ + 1]
    /\ EnsureConnectedCall(t, tconnects[t])
    /\ UNCHANGED <<client, expected, transportVars, exc, lclient, tdisc,
                   dbusFails, cycles, faultsLeft, batchOnly>>
    /\ UNCHANGED older
    /\ UNCHANGED notifyVars

(***************************************************************************)
(* The disconnect path.                                                    *)
(***************************************************************************)
\* _disconnect: creates the task that will run _execute_disconnect.
Disconnect(t) ==
    /\ pc[t] = "idle"
    /\ Ctl(t, "xd_start", "disconnect", "none")
    /\ attempt' = [attempt EXCEPT ![t] = 0]
    /\ tdisc' = [tdisc EXCEPT ![t] = 0]
    /\ dbusFails' = [dbusFails EXCEPT ![t] = 0]
    /\ cycles' = [cycles EXCEPT ![t] = 0]
    /\ batchOnly' = FALSE
    /\ UNCHANGED <<sessionVars, transportVars, exc, lclient, tconnects,
                   faultsLeft>>
    /\ UNCHANGED older
    /\ UNCHANGED notifyVars

\* The task starts running _execute_disconnect.
ExecuteDisconnect(t) ==
    /\ pc[t] = "xd_start"
    /\ ExecuteDisconnectCall(t, connect_lock, "none")
    /\ UNCHANGED <<transportVars, attempt, tconnects, tdisc, dbusFails,
                   faultsLeft, batchOnly>>
    /\ older' = IF pc'[t] \in PendingDisc THEN older ELSE older \ {t}
    /\ UNCHANGED notifyVars

\* A waiter of _execute_disconnect gets the lock.
ExecuteDisconnectLocked(t) ==
    /\ pc[t] = "xd_lock"
    /\ connect_lock = None
    /\ waiters # <<>> /\ Head(waiters) = t
    /\ waiters' = Tail(waiters)
    /\ XdBody(t, exc[t])
    /\ UNCHANGED <<transportVars, attempt, tconnects, tdisc, dbusFails,
                   faultsLeft, batchOnly>>
    /\ older' = IF pc'[t] \in PendingDisc THEN older ELSE older \ {t}
    /\ UNCHANGED notifyVars

\* StopNotifyDone where the BleakError of stop_notify is not caught: it
\* leaves the `async with` and reaches the caller.
StopNotifyDoneAborts(t, ok) ==
    /\ pc[t] = "stop_notify"
    /\ subscribed' = IF ok THEN subscribed \ {lclient[t]} ELSE subscribed
    /\ IF ok
       THEN /\ pc' = [pc EXCEPT ![t] = "disconnect"]
            /\ tdisc' = [tdisc EXCEPT ![t] = @ + 1]
            /\ UNCHANGED <<connect_lock, result>>
       ELSE /\ pc' = [pc EXCEPT ![t] = "idle"]
            /\ result' = [result EXCEPT ![t] = "error"]
            /\ connect_lock' = None
            /\ UNCHANGED tdisc
    /\ UNCHANGED <<client, expected, waiters, live, dlog, op, attempt, exc,
                   lclient, tconnects, dbusFails, cycles, faultsLeft,
                   batchOnly>>
    /\ UNCHANGED older
    /\ UNCHANGED notifyVars

\* stop_notify returns or raises BleakError, which is caught and logged.
StopNotifyDone(t, ok) ==
    /\ pc[t] = "stop_notify"
    /\ subscribed' = IF ok THEN subscribed \ {lclient[t]} ELSE subscribed
    /\ pc' = [pc EXCEPT ![t] = "disconnect"]
    /\ tdisc' = [tdisc EXCEPT ![t] = @ + 1]
    /\ UNCHANGED <<sessionVars, live, dlog, op, attempt, exc, lclient, result,
                   tconnects, dbusFails, cycles, faultsLeft, batchOnly>>
    /\ UNCHANGED older
    /\ UNCHANGED notifyVars

\* client.disconnect() returns; the transport has run the disconnected
\* callback if the link was still up.
ClientDisconnectDone(t) ==
    /\ pc[t] = "disconnect"
    /\ live' = live \ {lclient[t]}
    /\ subscribed' = subscribed \ {lclient[t]}
    /\ dlog' = IF lclient[t] \in live THEN Disconnected ELSE dlog
    /\ connect_lock' = None
    /\ lclient' = [lclient EXCEPT ![t] = None]
    /\ XdReturn(t, exc[t])
    /\ UNCHANGED <<client, expected, waiters, attempt, tconnects, tdisc,
                   dbusFails, faultsLeft, batchOnly>>
    /\ UNCHANGED older
    /\ UNCHANGED notifyVars

(***************************************************************************)
(* The environment.                                                        *)
(***************************************************************************)
\* The link of a connected client is lost; the transport runs _disconnected.
LinkDrop(h) ==
    /\ h \in live
    /\ faultsLeft > 0
    /\ faultsLeft' = faultsLeft - 1
    /\ live' = live \ {h}
    /\ subscribed' = subscribed \ {h}
    /\ dlog' = Disconnected
    /\ batchOnly' = FALSE
    /\ UNCHANGED <<sessionVars, taskVars, tconnects, tdisc, dbusFails, cycles>>
    /\ UNCHANGED older
    /\ UNCHANGED notifyVars

\* The asyncio task of t is cancelled while it is suspended at an await:
\* CancelledError is raised there. It is not a BleakError, so no except
\* clause of _execute_disconnect or _retry_ble_connection handles it and
\* the retry wrapper does not retry; only the `async with` blocks run,
\* releasing the lock or leaving its queue. A cancelled client.disconnect()
\* may or may not have brought the link down (done).
Cancel(t, done) ==
    /\ pc[t] \in {"ec_lock", "establish", "start_notify", "cooldown",
                  "backoff", "xd_lock", "stop_notify", "disconnect"}
    /\ done => (pc[t] = "disconnect" /\ lclient[t] \in live)
    /\ faultsLeft > 0
    /\ faultsLeft' = faultsLeft - 1
    /\ waiters' = SelectSeq(waiters, LAMBDA u : u # t)
    /\ connect_lock' = IF connect_lock = t THEN None ELSE connect_lock
    /\ live' = IF done THEN live \ {lclient[t]} ELSE live
    /\ subscribed' = IF done THEN subscribed \ {lclient[t]} ELSE subscribed
    /\ dlog' = IF done THEN Disconnected ELSE dlog
    /\ Ctl(t, "idle", op[t], "cancelled")
    /\ exc' = [exc EXCEPT ![t] = "none"]
    /\ lclient' = [lclient EXCEPT ![t] = None]
    /\ UNCHANGED <<client, expected, attempt, tconnects, tdisc, dbusFails,
                   cycles, batchOnly>>
    /\ older' = IF pc'[t] \in PendingDisc THEN older ELSE older \ {t}
    /\ UNCHANGED notifyVars

(***************************************************************************)
(* The observer registry.                                                  *)
(***************************************************************************)
\* Index of the first entry of list whose callback is fn, 0 if there is none.
FirstIndex(list, fn) ==
    IF \E i \in 1..Len(list) : list[i].fn = fn
    THEN CHOOSE i \in 1..Len(list) :
            /\ list[i].fn = fn
            /\ \A j \in 1..(i - 1) : list[j].fn # fn
    ELSE 0

\* list.remove(fn): drops the first entry equal to fn, ValueError if none.
ListRemove(list, fn) ==
    LET i == FirstIndex(list, fn) IN
    IF i = 0
    THEN [raised |-> TRUE, list |-> list]
    ELSE [raised |-> FALSE,
          list |-> SubSeq(list, 1, i - 1) \o SubSeq(list, i + 1, Len(list))]

\* register_callback(fn)
RegisterCallback(fn) ==
    /\ Len(regFn) < MaxRegs
    /\ callbacks' = Append(callbacks, [fn |-> fn, reg |-> Len(regFn) + 1])
    /\ regFn' = Append(regFn, fn)
    /\ lastUnreg' = NoUnreg
    /\ UNCHANGED <<probe_state, relay_state, lastData, handlerError, fan,
                   lifeVars>>

\* The r-th unregister_callback is called (outside of a fan-out).
UnregisterCallback(r) ==
    /\ r \in 1..Len(regFn)
    /\ LET rm == ListRemove(callbacks, regFn[r]) IN
        /\ callbacks' = rm.list
        /\ lastUnreg' = [cap |-> r, raised |-> rm.raised, before |-> callbacks]
    /\ UNCHANGED <<regFn, probe_state, relay_state, lastData, handlerError,
                   fan, lifeVars>>

\* _fire_callbacks from list position i on. The for loop reads the live
\* list by position. scr[fn] is the unregister_callback that fn calls the
\* first time it is invoked in this fan-out (0: none); an exception of the
\* callback ends the loop.
RECURSIVE FireFrom(_, _, _, _, _)
FireFrom(list, i, log, scr, used) ==
    IF i > Len(list)
    THEN [end |-> list, log |-> log, raised |-> FALSE]
    ELSE LET cb == list[i]
             c == IF cb.fn \in used THEN 0 ELSE scr[cb.fn]
             rm == IF c = 0
                   THEN [raised |-> FALSE, list |-> list]
                   ELSE ListRemove(list, regFn[c])
             log1 == Append(log, <<cb.reg, "relay">>)
         IN  IF rm.raised
             THEN [end |-> list, log |-> log1, raised |-> TRUE]
             ELSE FireFrom(rm.list, i + 1, Append(log1, <<cb.reg, "probe">>),
                           scr, used \cup {cb.fn})

FireCallbacks(scr) == FireFrom(callbacks, 1, <<>>, scr, {})

(***************************************************************************)
(* The notification decoder.                                               *)
(***************************************************************************)
\* data[i] of a bytearray, IndexError when i is out of range
At(data, i) == IF i < Len(data) THEN data[i + 1] ELSE IndexError

\* len(data) == n and data[0] == b0 and data[1] == b1, left to right
ShapeTest(data, n, b0, b1) ==
    IF Len(data) # n THEN "no"
    ELSE IF At(data, 0) = IndexError THEN "raise"
    ELSE IF At(data, 0) # b0 THEN "no"
    ELSE IF At(data, 1) = IndexError THEN "raise"
    ELSE IF At(data, 1) # b1 THEN "no"
    ELSE "yes"

\* IsRelay without the length test.
IsRelayNoLen(data) ==
    IF Len(data) < 2 THEN "raise"
    ELSE IF At(data, 0) = 0 /\ At(data, 1) = 1 THEN "yes" ELSE "no"

IsProbe(data) == ShapeTest(data, 9, 0, 0)
IsRelay(data) == ShapeTest(data, 8, 0, 1)

\* struct.unpack(">H", ...) of two bytes
UnpackH(hi, lo) == hi * 256 + lo

\* ProbeBattery with strict comparisons.
ProbeBatteryStrict(b3) ==
    LET d == b3 * 3125 IN
    IF d > 200000 THEN 100
    ELSE IF d > 170000 THEN 51
    ELSE IF d > 150000 THEN 26
    ELSE 20

\* d = data[3] * 0.03125 in units of 1e-5, and the four tiers
ProbeBattery(b3) ==
    LET d == b3 * 3125 IN
    IF d >= 200000 THEN 100
    ELSE IF d >= 170000 THEN 51
    ELSE IF d >= 150000 THEN 26
    ELSE 20

\* ((raw * 0.0625) - 50.0625) / 100 in units of 1e-6
ProbeTemperature(raw) == raw * 625 - 500625

\* RelayBattery with the top threshold inclusive.
RelayBatteryInclusive(mv) ==
    IF mv >= 3870 THEN 100
    ELSE IF mv >= 3700 THEN 74
    ELSE IF mv >= 3600 THEN 49
    ELSE 0

\* the tiers of the relay voltage, mv in millivolts (volage = mv / 1000.0)
RelayBattery(mv) ==
    IF mv > 3870 THEN 100
    ELSE IF mv >= 3700 THEN 74
    ELSE IF mv >= 3600 THEN 49
    ELSE 0

DecodeProbe(data) ==
    [battery_level |-> ProbeBattery(At(data, 3)),
     temperature |-> ProbeTemperature(UnpackH(At(data, 4), At(data, 5))),
     rssi |-> At(data, 8)]

DecodeRelay(prev, data) ==
    LET mv == UnpackH(At(data, 2), At(data, 3)) IN
    [battery_level |-> RelayBattery(mv),
     volage |-> mv,
     status |-> IF Len(data) > 4 THEN At(data, 4) ELSE prev.status]

\* Decode whose probe branch also writes the relay battery level.
DecodeSharedBattery(probe, relay, data) ==
    IF IsProbe(data) = "raise" THEN [probe |-> probe, relay |-> relay, raised |-> TRUE]
    ELSE IF IsProbe(data) = "yes"
    THEN [probe |-> DecodeProbe(data),
          relay |-> [relay EXCEPT !.battery_level = ProbeBattery(At(data, 3))],
          raised |-> FALSE]
    ELSE IF IsRelay(data) = "raise" THEN [probe |-> probe, relay |-> relay, raised |-> TRUE]
    ELSE IF IsRelay(data) = "yes"
    THEN [probe |-> probe, relay |-> DecodeRelay(relay, data), raised |-> FALSE]
    ELSE [probe |-> probe, relay |-> relay, raised |-> FALSE]

\* The if / elif of _notification_handler.
Decode(probe, relay, data) ==
    IF IsProbe(data) = "raise" THEN [probe |-> probe, relay |-> relay, raised |-> TRUE]
    ELSE IF IsProbe(data) = "yes"
    THEN [probe |-> DecodeProbe(data), relay |-> relay, raised |-> FALSE]
    ELSE IF IsRelay(data) = "raise" THEN [probe |-> probe, relay |-> relay, raised |-> TRUE]
    ELSE IF IsRelay(data) = "yes"
    THEN [probe |-> probe, relay |-> DecodeRelay(relay, data), raised |-> FALSE]
    ELSE [probe |-> probe, relay |-> relay, raised |-> FALSE]

\* _notification_handler(_sender, data): decode, then fan out.
NotificationHandler(data, scr) ==
    \E dec \in {Decode(probe_state, relay_state, data)} :
    \E f \in {IF dec.raised
              THEN [end |-> callbacks, log |-> <<>>, raised |-> FALSE]
              ELSE FireCallbacks(scr)} :
        /\ probe_state' = dec.probe
        /\ relay_state' = dec.relay
        /\ callbacks' = f.end
        /\ fan' = [start |-> callbacks, end |-> f.end, log |-> f.log,
                   raised |-> f.raised]
        /\ handlerError' = (dec.raised \/ f.raised)
        /\ lastData' = data
        /\ lastUnreg' = NoUnreg
        /\ UNCHANGED <<regFn, lifeVars>>

(***************************************************************************)
(* Notifications the device may send.                                      *)
(***************************************************************************)
Probe(b3, hi, lo, r) == <<0, 0, 0, b3, hi, lo, 0, 0, r>>
Relay(mv, st) == <<0, 1, mv \div 256, mv % 256, st, 0, 0, 0>>
Fill(n, b0, b1, x) ==
    [i \in 1..n |-> IF i = 1 THEN b0 ELSE IF i = 2 THEN b1 ELSE x]

ProbeMsgs ==
    {Probe(b, 7, 208, 100) : b \in 0..255}
        \cup {Probe(64, 0, 0, 0), Probe(0, 255, 255, 255)}
MilliVolts == {0, 3599, 3600, 3699, 3700, 3870, 3871, 65535}
RelayMsgs == {Relay(mv, 1) : mv \in MilliVolts} \cup {Relay(3900, 255)}
OtherMsgs ==
    {Fill(n, 0, 0, 64) : n \in {0, 1, 2, 8, 10}}
        \cup {Fill(n, 0, 1, 64) : n \in {4, 7, 9}}
        \cup {Fill(n, 1, 0, 64) : n \in {8, 9}}
        \cup {Fill(9, 0, 2, 64), Fill(8, 0, 2, 64)}
Messages == ProbeMsgs \cup RelayMsgs \cup OtherMsgs
SampleMsgs == {Probe(64, 7, 208, 100), Relay(3900, 1), Fill(4, 0, 1, 64)}

Scripts == [Fns -> 0..Len(regFn)]

(***************************************************************************)
(* Specifications.                                                         *)
(***************************************************************************)
TaskStep(t) ==
    \/ RetryBleConnection(t)
    \/ EnsureConnectedLocked(t)
    \/ EstablishConnectionOk(t)
    \/ \E kind \in ErrorKinds : EstablishConnectionFails(t, kind)
    \/ StartNotifyOk(t)
    \/ \E kind \in ErrorKinds : StartNotifyFails(t, kind)
    \/ CooldownDone(t)
    \/ BackoffDone(t)
    \/ Disconnect(t)
    \/ ExecuteDisconnect(t)
    \/ ExecuteDisconnectLocked(t)
    \/ \E ok \in BOOLEAN : StopNotifyDone(t, ok)
    \/ ClientDisconnectDone(t)

\* The session used by NumTasks concurrent callers.
Next ==
    \/ \E t \in Tasks : TaskStep(t)
    \/ \E h \in Handles : LinkDrop(h)

Spec == Init /\ [][Next]_vars

\* The same, with callers whose tasks may be cancelled.
NextCancel ==
    \/ Next
    \/ \E t \in Tasks, done \in BOOLEAN : Cancel(t, done)

SpecCancel == Init /\ [][NextCancel]_vars

\* One caller alone, with enough failures to use up the retry budget.
InitRetry == InitLife(Attempts + 1) /\ InitNotify

\* Task 1 is the only task: the lock is never contended, so the two steps
\* that wait for it (EnsureConnectedLocked, ExecuteDisconnectLocked) are
\* never enabled and are left out.
NextRetry ==
    \/ RetryBleConnection(1)
    \/ EstablishConnectionOk(1)
    \/ \E kind \in ErrorKinds : EstablishConnectionFails(1, kind)
    \/ StartNotifyOk(1)
    \/ \E kind \in ErrorKinds : StartNotifyFails(1, kind)
    \/ CooldownDone(1)
    \/ BackoffDone(1)
    \/ Disconnect(1)
    \/ ExecuteDisconnect(1)
    \/ \E ok \in BOOLEAN : StopNotifyDone(1, ok)
    \/ ClientDisconnectDone(1)
    \/ \E h \in Handles : LinkDrop(h)

SpecRetry == InitRetry /\ [][NextRetry]_vars

\* The decoder alone: any notification in any order, no observers.
InitDecode == InitLife(0) /\ InitNotify

NextDecode == \E data \in Messages : NotificationHandler(data, NoScript)

SpecDecode == InitDecode /\ [][NextDecode]_vars

\* The registry: registrations, removals and fan-outs whose callbacks
\* may call an unregister_callback.
NextRegistry ==
    \/ \E fn \in Fns : RegisterCallback(fn)
    \/ \E r \in 1..MaxRegs : UnregisterCallback(r)
    \/ \E data \in SampleMsgs, scr \in Scripts : NotificationHandler(data, scr)

SpecRegistry == InitDecode /\ [][NextRegistry]_vars

(***************************************************************************)
(* Properties.                                                             *)
(***************************************************************************)
RECURSIVE SumTo(_, _)
SumTo(f, n) == IF n = 0 THEN 0 ELSE f[n] + SumTo(f, n - 1)

Idle(t) == pc[t] = "idle"
Connected == IsConnected(client) /\ client \in subscribed

\* C1 (as claimed): when all NumTasks callers started the connect path on a
\* session without a handle before any of them had returned, and all have
\* returned, exactly one establish_connection call was made in total and
\* all callers got the same outcome.
C1_OneConnectNoSplit ==
    (batchOnly /\ \A t \in Tasks : Idle(t) /\ op[t] = "connect")
        => /\ SumTo(tconnects, NumTasks) = 1
           /\ \A t, u \in Tasks : result[t] = result[u]

\* C2: a call of the connect path entered while the handle is connected
\* returns at once with success: the task starts no transport call, and the
\* handle, expected_disconnect, the lock, the transport and both state
\* snapshots are left as they were.
C2_EnsureConnectedIdempotent ==
    [][\A t \in Tasks :
        (IsConnected(client) /\ (RetryBleConnection(t) \/ BackoffDone(t)))
            => /\ pc'[t] = "idle"
               /\ result'[t] = "ok"
               /\ tconnects'[t] = (IF Idle(t) THEN 0 ELSE tconnects[t])
               /\ tdisc'[t] = (IF Idle(t) THEN 0 ELSE tdisc[t])
               /\ \A u \in Tasks \ {t} : pc'[u] = pc[u]
               /\ UNCHANGED <<client, expected, connect_lock, waiters, live,
                              subscribed, probe_state, relay_state>>]_vars

\* C2 witness: with no failure injected, one task's connect call made the
\* connection and the other task's connect call returned success without
\* any establish_connection call of its own, after the first call.
C2_Witness ==
    \E t, u \in Tasks :
        /\ t # u
        /\ Idle(t) /\ op[t] = "connect" /\ result[t] = "ok"
        /\ tconnects[t] = 0 /\ attempt[t] = 0
        /\ Idle(u) /\ op[u] = "connect" /\ result[u] = "ok"
        /\ tconnects[u] = 1
        /\ ~batchOnly /\ faultsLeft = MaxFaults
        /\ Connected

\* C3: a call of the retry-wrapped connect path never makes more than 10
\* attempts or 10 establish_connection calls; when it has ended with an
\* error it has made exactly 10 of each, the handle is null and the lock
\* is free.
C3_RetryBudget ==
    \A t \in Tasks :
        /\ attempt[t] <= Attempts - 1
        /\ tconnects[t] <= Attempts
        /\ (Idle(t) /\ result[t] = "error")
            => /\ attempt[t] = Attempts - 1
               /\ tconnects[t] = Attempts
               /\ client = None
               /\ connect_lock = None /\ waiters = <<>>

\* C3 witness: the caller got the error after ten failed attempts.
C3_Witness ==
    Idle(1) /\ result[1] = "error" /\ tconnects[1] = Attempts

\* C4: each cooldown cycle ends with the forced disconnect (handle null)
\* followed by the re-raise into the retry wrapper; and a call that saw
\* exactly 3 failures, all bus-level, and then succeeds has completed
\* exactly 3 such cycles, succeeds in its 4th attempt with its 4th
\* establish_connection call, and leaves the session connected and
\* subscribed with the budget of 10 not used up.
C4_ThreeCooldownCycles ==
    [][\A t \in Tasks :
        /\ (cycles'[t] = cycles[t] + 1)
            => /\ exc[t] = "dbus" /\ exc'[t] = "none"
               /\ pc[t] \in {"cooldown", "xd_lock", "disconnect"}
               /\ pc'[t] \in {"backoff", "idle"}
               /\ client' = None /\ expected'
        /\ (exc'[t] = "dbus" /\ exc[t] # "dbus") => pc'[t] = "cooldown"
        /\ (result[t] = "none" /\ result'[t] = "ok" /\ op[t] = "connect"
                /\ dbusFails'[t] = 3 /\ attempt'[t] = 3)
            => /\ cycles'[t] = 3
               /\ tconnects'[t] = 4
               /\ attempt'[t] < Attempts - 1
               /\ IsConnected(client') /\ client' \in subscribed']_vars

\* C4 witness: success in the 4th attempt after 3 bus-level failures.
C4_Witness ==
    /\ Idle(1) /\ result[1] = "ok"
    /\ dbusFails[1] = 3 /\ attempt[1] = 3 /\ cycles[1] = 3
    /\ Connected

\* C5: every _execute_disconnect run as a disconnect call ends with the
\* handle null, expected_disconnect true and no error; and one that takes
\* the lock in that state returns at once, starts no transport call and
\* leaves the handle, the flag and the transport as they were.
C5_DisconnectIdempotent ==
    [][\A t \in Tasks :
        /\ (op[t] = "disconnect" /\ ~Idle(t) /\ pc'[t] = "idle")
            => /\ client' = None /\ expected' /\ result'[t] = "ok"
               /\ connect_lock' = None
               /\ lclient[t] \notin live'
        /\ (op[t] = "disconnect" /\ pc[t] \in {"xd_start", "xd_lock"}
                /\ pc'[t] \notin {"xd_start", "xd_lock"}
                /\ client = None /\ expected)
            => /\ pc'[t] = "idle" /\ result'[t] = "ok"
               /\ tdisc'[t] = 0
               /\ UNCHANGED <<client, expected, live, subscribed>>]_vars

\* C5 witness: with no failure injected, task u's disconnect tore down the
\* connection made by task t, and t's later disconnect call returned
\* without a transport call.
C5_Witness ==
    \E t, u \in Tasks :
        /\ t # u
        /\ Idle(t) /\ op[t] = "disconnect" /\ result[t] = "ok"
        /\ tconnects[t] = 1 /\ tdisc[t] = 0
        /\ Idle(u) /\ op[u] = "disconnect" /\ result[u] = "ok"
        /\ tconnects[u] = 0 /\ tdisc[u] = 1
        /\ faultsLeft = MaxFaults
        /\ client = None /\ expected /\ live = {}

\* C6 (as claimed): when the link of the session's connected and subscribed
\* handle is lost while no disconnect call is under way, _disconnected
\* logs the unexpected disconnect.
C6_DropIsUnexpected ==
    [][\A h \in Handles :
        (LinkDrop(h) /\ client = h /\ h \in subscribed
            /\ \A t \in Tasks : Idle(t) \/ op[t] = "connect")
            => dlog' = "warning"]_vars

Count(log, x) == Cardinality({i \in 1..Len(log) : log[i] = x})
Regs(list) == {list[i].reg : i \in 1..Len(list)}
Without(list, r) == SelectSeq(list, LAMBDA e : e.reg # r)

\* C7 (as claimed): in a fan-out over observers that are all different
\* callbacks and that no callback aborted, every observer that was
\* registered when the fan-out began and is still registered when it ends
\* was called exactly once with each of the two states.
C7_FanOutComplete ==
    (~fan.raised
        /\ \A i, j \in 1..Len(fan.start) :
                fan.start[i].fn = fan.start[j].fn => i = j)
    => \A i \in 1..Len(fan.start) :
        fan.start[i].reg \in Regs(fan.end)
            => /\ Count(fan.log, <<fan.start[i].reg, "relay">>) = 1
               /\ Count(fan.log, <<fan.start[i].reg, "probe">>) = 1

\* C8 (as claimed): a call of the r-th unregister_callback does not raise
\* and leaves the list as it was but for the entry appended by the r-th
\* register_callback call, if that entry was still there.
C8_UnregisterExact ==
    lastUnreg.cap # 0
        => /\ ~lastUnreg.raised
           /\ callbacks = Without(lastUnreg.before, lastUnreg.cap)

\* (length, byte[0], byte[1]) is neither (9, 0x00, 0x00) nor (8, 0x00, 0x01)
Unrecognized(data) ==
    /\ ~(Len(data) = 9 /\ data[1] = 0 /\ data[2] = 0)
    /\ ~(Len(data) = 8 /\ data[1] = 0 /\ data[2] = 1)

\* C9: a notification whose (length, byte[0], byte[1]) matches neither
\* shape leaves every field of probe_state and relay_state as it was, and
\* the handler does not raise.
C9_UnrecognizedInert ==
    [][(lastData' \in Messages /\ Unrecognized(lastData'))
        => /\ UNCHANGED <<probe_state, relay_state>>
           /\ ~handlerError']_vars

\* C9 witness: a 9-byte notification with the relay prefix arrived after
\* both states had been decoded, and both are still decoded states.
C9_Witness ==
    /\ Len(lastData) = 9 /\ lastData[1] = 0 /\ lastData[2] = 1
    /\ probe_state # ProbeState
    /\ relay_state # RelayState
    /\ ~handlerError

\* C10: after a 9-byte probe message with byte[3] = b the probe battery
\* level is 100 if b >= 64, 51 if 55 <= b <= 63, 26 if 48 <= b <= 54 and
\* 20 if b <= 47.
C10_ProbeBatteryTiers ==
    (Len(lastData) = 9 /\ lastData[1] = 0 /\ lastData[2] = 0)
        => probe_state.battery_level =
            (IF lastData[4] >= 64 THEN 100
             ELSE IF lastData[4] >= 55 THEN 51
             ELSE IF lastData[4] >= 48 THEN 26
             ELSE 20)

\* C10 witness: byte[3] = 64, d = 2.0 exactly, decoded as 100.
C10_Witness ==
    /\ Len(lastData) = 9 /\ lastData[1] = 0 /\ lastData[2] = 0
    /\ lastData[4] = 64
    /\ probe_state.battery_level = 100

\* the last notification is an 8-byte relay message
IsRelayMsg(data) == Len(data) = 8 /\ data[1] = 0 /\ data[2] = 1
\* the last notification is a 9-byte probe message
IsProbeMsg(data) == Len(data) = 9 /\ data[1] = 0 /\ data[2] = 0

\* C11: after an 8-byte relay message with mv = big-endian u16 of
\* bytes[2:4], the relay battery level is 100 if mv > 3870, 74 if
\* 3700 <= mv <= 3870, 49 if 3600 <= mv < 3700 and 0 if mv < 3600, and
\* status is byte[4] of the message; in every state the relay battery
\* level is one of 0, 49, 74, 100.
C11_RelayBatteryTiers ==
    /\ relay_state.battery_level \in {0, 49, 74, 100}
    /\ IsRelayMsg(lastData)
        => LET mv == lastData[3] * 256 + lastData[4] IN
           /\ (mv > 3870) => relay_state.battery_level = 100
           /\ (3700 <= mv /\ mv <= 3870) => relay_state.battery_level = 74
           /\ (3600 <= mv /\ mv < 3700) => relay_state.battery_level = 49
           /\ (mv < 3600) => relay_state.battery_level = 0
           /\ relay_state.status = lastData[5]

\* C11 witness: 3870 mV exactly is decoded as 74, with status byte 1.
C11_Witness ==
    /\ IsRelayMsg(lastData)
    /\ lastData[3] * 256 + lastData[4] = 3870
    /\ relay_state.battery_level = 74
    /\ relay_state.status = 1

\* a step in which a call of _ensure_connected made by task t returns
\* without an exception
EnsureConnectedReturns(t) ==
    /\ \/ RetryBleConnection(t)
       \/ BackoffDone(t)
       \/ EnsureConnectedLocked(t)
       \/ StartNotifyOk(t)
    /\ pc'[t] = "idle" /\ result'[t] = "ok"

\* C12 (as claimed): whenever a call of _ensure_connected returns without
\* an exception, the handle is a connected client whose start_notify has
\* completed successfully.
C12_ReturnMeansSubscribed ==
    [][\A t \in Tasks :
        EnsureConnectedReturns(t)
            => IsConnected(client') /\ client' \in subscribed']_vars

\* the lock is free and no call into the session is under way
Quiescent == connect_lock = None /\ waiters = <<>> /\ \A t \in Tasks : Idle(t)

\* C13 (as claimed): after any exit of a connection-management operation,
\* cancellation at an await included, the lock is released, and when the
\* lock is free and no operation is running the handle is not a connected
\* client without a notification subscription.
C13_NeverHalfConnected ==
    Quiescent => ~(IsConnected(client) /\ client \notin subscribed)

\* C14 (as claimed): a disconnect of task t that was scheduled, or forced
\* by a failed attempt, before another task's establish_connection
\* returned does not, when it gets to run, clear the handle of that
\* later connection once its _ensure_connected has succeeded (the handle is
\* connected and subscribed).
C14_NoLateTeardown ==
    [][\A t \in Tasks :
        (t \in older /\ pc[t] \in PendingDisc /\ pc'[t] \notin PendingDisc
            /\ Connected)
            => client' = client]_vars

\* awaits of a transport operation: establish_connection, start_notify,
\* stop_notify, client.disconnect
TransportOps == {"establish", "start_notify", "stop_notify", "disconnect"}
InFlight == {t \in Tasks : pc[t] \in TransportOps}

\* C15: at most one task is suspended in a transport operation (connect,
\* subscribe, unsubscribe, transport disconnect), and that task holds the
\* lock.
C15_OneTransportOp ==
    /\ Cardinality(InFlight) <= 1
    /\ \A t \in InFlight : connect_lock = t

\* C15 witness: a transport disconnect is in flight while a connect call
\* of another task waits for the lock.
C15_Witness ==
    \E t, u \in Tasks :
        /\ pc[t] = "disconnect" /\ connect_lock = t
        /\ pc[u] = "ec_lock" /\ waiters = <<u>>

\* C16 (as claimed): at the moment a task's establish_connection call
\* begins, the handle is null.
C16_NoStaleHandle ==
    [][\A t \in Tasks :
        (pc[t] # "establish" /\ pc'[t] = "establish")
            => client = None /\ client' = None]_vars

\* C17 (as claimed): an explicit disconnect clears the handle of a
\* connected client last: the step of its task that sets the handle to null
\* is taken after the task's transport disconnect has been issued, not by
\* the step that takes the lock.
C17_ClearsHandleLast ==
    [][\A t \in Tasks :
        (op[t] = "disconnect" /\ pc'[t] # pc[t]
            /\ IsConnected(client) /\ client' = None)
            => pc[t] = "disconnect"]_vars

\* C18: when stop_notify fails on a connected, subscribed handle (the
\* subscription is still there when the call is over), _execute_disconnect
\* goes on to the transport disconnect; and when that is done the link of
\* the handle is down, the session's handle is null, the lock is released
\* and the call has raised nothing: a disconnect call ends with success,
\* and the retry path goes on with the error it was already handling.
C18_UnsubscribeFailureSwallowed ==
    [][\A t \in Tasks :
        /\ (pc[t] = "stop_notify" /\ pc'[t] # "stop_notify"
                /\ lclient[t] \in subscribed /\ lclient[t] \in subscribed')
            => /\ pc'[t] = "disconnect"
               /\ tdisc'[t] = tdisc[t] + 1
               /\ connect_lock' = t
        /\ (pc[t] = "disconnect" /\ pc'[t] # "disconnect"
                /\ lclient[t] \in subscribed)
            => /\ lclient[t] \notin live'
               /\ client' = None
               /\ connect_lock' = None
               /\ op[t] = "disconnect" => (pc'[t] = "idle" /\ result'[t] = "ok")
               /\ op[t] = "connect"
                    => \/ pc'[t] = "backoff" /\ result'[t] = "none"
                       \/ pc'[t] = "idle" /\ result'[t] = "error"
                            /\ attempt[t] = Attempts - 1]_vars

\* C18 witness: in a disconnect call, stop_notify has failed on the
\* connected and subscribed handle and the transport disconnect has been
\* issued.
C18_Witness ==
    \E t \in Tasks :
        /\ op[t] = "disconnect" /\ pc[t] = "disconnect"
        /\ lclient[t] \in live /\ lclient[t] \in subscribed
        /\ client = None /\ expected /\ connect_lock = t

\* C19: a 9-byte probe message leaves every field of relay_state as it
\* was, an 8-byte relay message leaves every field of probe_state as it
\* was, and no notification changes both states.
C19_ShapesDisjoint ==
    [][/\ IsProbeMsg(lastData')
            => /\ relay_state'.battery_level = relay_state.battery_level
               /\ relay_state'.volage = relay_state.volage
               /\ relay_state'.status = relay_state.status
       /\ IsRelayMsg(lastData')
            => /\ probe_state'.battery_level = probe_state.battery_level
               /\ probe_state'.temperature = probe_state.temperature
               /\ probe_state'.rssi = probe_state.rssi
       /\ probe_state' = probe_state \/ relay_state' = relay_state]_vars

\* C19 witness: a probe message was decoded (battery 20, rssi 255) after a
\* relay message of 3900 mV with status 255, and the relay state is still
\* the decoded one.
C19_Witness ==
    /\ IsProbeMsg(lastData)
    /\ probe_state.battery_level = 20 /\ probe_state.rssi = 255
    /\ relay_state = [battery_level |-> 100, volage |-> 3900, status |-> 255]

\* C20 (as claimed): in the fan-out of every notification the observers
\* registered when it was delivered are called in registration order, each
\* one with the RelayState and then the ProbeState, and none is left out.
C20_EveryObserverBothStates ==
    /\ \A i, j \in 1..Len(fan.start) :
            i < j => fan.start[i].reg < fan.start[j].reg
    /\ Len(fan.log) = 2 * Len(fan.start)
    /\ \A i \in 1..Len(fan.start) :
            /\ fan.log[2 * i - 1] = <<fan.start[i].reg, "relay">>
            /\ fan.log[2 * i] = <<fan.start[i].reg, "probe">>
====
